---- MODULE Spec2Model ----
(***************************************************************************)
(* Balance / approval reconciliation of seaport.py                         *)
(* (seaport/utils/balance_and_approval_check.py).                          *)
(*                                                                         *)
(* The module's functions are pure apart from one in-place update of a     *)
(* working copy (standard fulfillment) and the read-only contract calls of *)
(* the snapshot builder.  Each function is an action that is applied to    *)
(* inputs drawn by the initial predicate of its specification:             *)
(*   SpecDetect    get_insufficient_balance_and_approval_amounts           *)
(*   Spec          validate_offer / validate_basic_fulfill /               *)
(*                 validate_standard_fulfill _balances_and_approvals       *)
(*   SpecApproval  get_approval_actions                                    *)
(*   SpecSnapshot  get_balances_and_approvals / approved_item_amount       *)
(* A Python exception is the value Raise(message); a normal return is      *)
(* Return(value).                                                          *)
(***************************************************************************)
EXTENDS Integers, Sequences, FiniteSets, TLC

VARIABLES
    \* get_insufficient_balance_and_approval_amounts: arguments and outcome
    balances_and_approvals, token_and_identifier_amounts, insufficient_amounts,
    \* validate_*: the order, the clock, the caller's objects and the outcome
    offer, consideration, time_based_item_params, heap,
    offerer_balances_and_approvals, fulfiller_balances_and_approvals, result,
    \* get_approval_actions: arguments and outcome
    insufficient_approvals, account_address, approval_actions,
    \* get_balances_and_approvals: arguments, the chain, the outcome and the
    \* contract calls made
    items, criterias, web3, snapshot, calls

detectVars == <<balances_and_approvals, token_and_identifier_amounts, insufficient_amounts>>
flowVars == <<offer, consideration, time_based_item_params, heap,
              offerer_balances_and_approvals, fulfiller_balances_and_approvals, result>>
approvalVars == <<insufficient_approvals, account_address, approval_actions>>
snapshotVars == <<items, criterias, web3, snapshot, calls>>
vars == <<detectVars, flowVars, approvalVars, snapshotVars>>

----------------------------------------------------------------------------
(* Bounds of the model *)

\* largest balance, approved amount and required amount handed to the deficit
\* detector; largest allowance on the chain the snapshot builder reads
MaxAmount == 1
\* longest snapshot handed to the deficit detector
MaxSnapshot == 2
\* most (token, identifier) pairs of a requirement mapping
MaxRequired == 2
\* most offer items, and most consideration items, of an order
MaxItems == 2
\* what the fulfiller holds of a token it holds
MaxBalance == 1
\* longest list of insufficient approvals handed to get_approval_actions
MaxApprovals == 3
\* most items handed to get_balances_and_approvals
MaxSnapshotItems == 2

----------------------------------------------------------------------------
(* Constants of the program *)

NATIVE == 0
ERC20 == 1
ERC721 == 2
ERC1155 == 3
ERC721_WITH_CRITERIA == 4
ERC1155_WITH_CRITERIA == 5

\* 2^256 - 1 in the source.  It is only ever compared with amounts, never
\* added to, so the model uses its own largest integer, above every amount.
MAX_INT == 2147483647

LOOKUP_MESSAGE == "Balances and approvals didn't contain all tokens and identifiers"
OFFERER_BALANCE_MESSAGE == "The offerer does not have the amount needed to create or fulfill."
OFFERER_APPROVAL_MESSAGE == "The offerer does not have the sufficient approvals."
FULFILLER_BALANCE_MESSAGE == "The fulfiller does not have the balances needed to fulfill."

----------------------------------------------------------------------------
(* Values *)

\* Token addresses as the callers write them: "0xA" is the checksummed
\* spelling of "0xa", "0xB" of "0xb".
Tokens == {"0xa", "0xA", "0xb"}
Ids == {1, 2}

\* str.lower() on the token addresses
Lower(token) ==
    CASE token = "0xA" -> "0xa"
      [] token = "0xB" -> "0xb"
      [] OTHER -> token

\* The kind of contract deployed at an address: "0xa" is a fungible token,
\* "0xb" a semi-fungible one.
TokenItemType(token) == IF Lower(token) = "0xa" THEN ERC20 ELSE ERC1155

Return(v) == [raised |-> FALSE, value |-> v, message |-> ""]
Raise(msg) == [raised |-> TRUE, value |-> <<>>, message |-> msg]

SeqsUpTo(S, n) == UNION {[1..k -> S] : k \in 0..n}
Range(s) == {s[i] : i \in DOMAIN s}
Min(S) == CHOOSE x \in S : \A y \in S : x <= y


----------------------------------------------------------------------------
(* TokenAndIdentifierAmounts: dict[str, dict[int, int]].  A Python dict     *)
(* iterates in insertion order, so it is a sequence of                      *)
(* [token, amounts] with distinct tokens, amounts a sequence of             *)
(* [identifier, amount] with distinct identifiers.                          *)

DictKeys(d) == {d[i].token : i \in DOMAIN d}
DictIndex(d, token) == CHOOSE i \in DOMAIN d : d[i].token = token
InnerKeys(a) == {a[i].identifier : i \in DOMAIN a}
InnerIndex(a, identifier) == CHOOSE i \in DOMAIN a : a[i].identifier = identifier

\* d[token][identifier] = d[token].get(identifier, 0) + amount
InnerAdd(a, identifier, amount) ==
    IF identifier \in InnerKeys(a)
    THEN [a EXCEPT ![InnerIndex(a, identifier)].amount = @ + amount]
    ELSE Append(a, [identifier |-> identifier, amount |-> amount])

DictAdd(d, token, identifier, amount) ==
    IF token \in DictKeys(d)
    THEN [d EXCEPT ![DictIndex(d, token)].amounts = InnerAdd(@, identifier, amount)]
    ELSE Append(d, [token |-> token,
                    amounts |-> <<[identifier |-> identifier, amount |-> amount]>>])

\* the amount required of (token, identifier), 0 when the pair is no key
DictGet(d, token, identifier) ==
    IF token \in DictKeys(d)
       /\ identifier \in InnerKeys(d[DictIndex(d, token)].amounts)
    THEN LET a == d[DictIndex(d, token)].amounts
         IN a[InnerIndex(a, identifier)].amount
    ELSE 0

\* the (token, identifier) keys of the mapping
DictPairs(d) ==
    UNION {{<<d[i].token, d[i].amounts[j].identifier>> : j \in DOMAIN d[i].amounts} :
        i \in DOMAIN d}

----------------------------------------------------------------------------
(* find_balance_and_approval *)

find_balance_and_approval_NoLower(bas, token, identifier_or_criteria) ==
    LET hits == {i \in DOMAIN bas :
                    /\ token = bas[i].token
                    /\ identifier_or_criteria = bas[i].identifier_or_criteria}
    IN IF hits = {} THEN Raise(LOOKUP_MESSAGE) ELSE Return(bas[Min(hits)])

find_balance_and_approval(bas, token, identifier_or_criteria) ==
    LET hits == {i \in DOMAIN bas :
                    /\ Lower(token) = Lower(bas[i].token)
                    /\ identifier_or_criteria = bas[i].identifier_or_criteria}
    IN IF hits = {} THEN Raise(LOOKUP_MESSAGE) ELSE Return(bas[Min(hits)])

----------------------------------------------------------------------------
(* get_insufficient_balance_and_approval_amounts *)

\* the loop of lines 186-190: the mapping flattened to
\* <<token, identifier_or_criteria, amount_needed>> in iteration order
RECURSIVE token_and_identifier_and_amount_needed_list(_)
token_and_identifier_and_amount_needed_list(d) ==
    IF d = <<>> THEN <<>>
    ELSE [j \in DOMAIN d[1].amounts |->
             <<d[1].token, d[1].amounts[j].identifier, d[1].amounts[j].amount>>]
         \o token_and_identifier_and_amount_needed_list(Tail(d))

filter_balance_or_approval_NotStrict(bas, filter_key, needed) ==
    find_balance_and_approval(bas, needed[1], needed[2]).value[filter_key] <= needed[3]

filter_balance_or_approval_Reversed(bas, filter_key, needed) ==
    find_balance_and_approval(bas, needed[1], needed[2]).value[filter_key] > needed[3]

\* amount < amount_needed, on the entry find_balance_and_approval returns
filter_balance_or_approval(bas, filter_key, needed) ==
    find_balance_and_approval(bas, needed[1], needed[2]).value[filter_key] < needed[3]

map_to_balance(bas, filter_key, needed) ==
    LET balance_and_approval == find_balance_and_approval(bas, needed[1], needed[2]).value
    IN [token |-> needed[1],
        identifier_or_criteria |-> needed[2],
        required_amount |-> needed[3],
        amount_have |-> balance_and_approval[filter_key],
        item_type |-> balance_and_approval.item_type]

\* a detector that passes over a triple with no snapshot entry
filter_balances_or_approvals_SkipMissing(bas, needed_list, filter_key) ==
    LET Keep(needed) ==
            /\ ~find_balance_and_approval(bas, needed[1], needed[2]).raised
            /\ filter_balance_or_approval(bas, filter_key, needed)
        kept == SelectSeq(needed_list, Keep)
    IN Return([i \in DOMAIN kept |-> map_to_balance(bas, filter_key, kept[i])])

\* list(map(map_to_balance, filter(filter_balance_or_approval, list))): the
\* filter looks every triple up, so one missing entry raises
filter_balances_or_approvals(bas, needed_list, filter_key) ==
    IF \E i \in DOMAIN needed_list :
          find_balance_and_approval(bas, needed_list[i][1], needed_list[i][2]).raised
    THEN Raise(LOOKUP_MESSAGE)
    ELSE LET Keep(needed) == filter_balance_or_approval(bas, filter_key, needed)
             kept == SelectSeq(needed_list, Keep)
         IN Return([i \in DOMAIN kept |-> map_to_balance(bas, filter_key, kept[i])])

map_to_approval(insufficient_balance, operator) ==
    [token |-> insufficient_balance.token,
     identifier_or_criteria |-> insufficient_balance.identifier_or_criteria,
     approved_amount |-> insufficient_balance.amount_have,
     required_approved_amount |-> insufficient_balance.required_amount,
     item_type |-> insufficient_balance.item_type,
     operator |-> operator]

get_insufficient_balance_and_approval_amounts(bas, amounts, operator) ==
    LET needed_list == token_and_identifier_and_amount_needed_list(amounts)
        balances == filter_balances_or_approvals(bas, needed_list, "balance")
        approvals == filter_balances_or_approvals(bas, needed_list, "approved_amount")
    IN IF balances.raised THEN balances
       ELSE IF approvals.raised THEN approvals
       ELSE Return([insufficient_balances |-> balances.value,
                    insufficient_approvals |->
                        [i \in DOMAIN approvals.value |->
                            map_to_approval(approvals.value[i], operator)]])

----------------------------------------------------------------------------
(* seaport.utils.item, as the specification describes it (sections 4.1-4.3) *)

CRITERIA_MESSAGE == "Criteria missing for a criteria-based item"

is_native_currency_item(item_type) == item_type = NATIVE
is_erc20_item(item_type) == item_type = ERC20
is_erc721_item(item_type) == item_type \in {ERC721, ERC721_WITH_CRITERIA}
is_erc1155_item(item_type) == item_type \in {ERC1155, ERC1155_WITH_CRITERIA}
is_criteria_item(item_type) == item_type \in {ERC721_WITH_CRITERIA, ERC1155_WITH_CRITERIA}

\* TimeBasedItemParams, or None
NoParams == [none |-> TRUE]

\* time_based_item_params.copy(update={"is_consideration_item": b}) if
\* time_based_item_params else None
with_is_consideration_item(params, b) ==
    IF params.none THEN params ELSE [params EXCEPT !.is_consideration_item = b]

\* 4.1: the amount owed now; offer items round down, consideration items up
get_present_item_amount(start_amount, end_amount, params) ==
    IF start_amount = end_amount THEN end_amount
    ELSE LET duration == params.endTime - params.startTime
             elapsed == params.currentBlockTimestamp - params.startTime
             remaining == duration - elapsed
             total == start_amount * remaining + end_amount * elapsed
         IN IF params.is_consideration_item
            THEN (total + duration - 1) \div duration
            ELSE total \div duration

\* 4.2: item index -> resolved identifier, for the criteria-based items;
\* criterias is a sequence of [index, identifier] (index counted from 1 here)
get_item_index_to_criteria_map(item_list, criteria_list) ==
    LET needing == {i \in DOMAIN item_list : is_criteria_item(item_list[i].itemType)}
        given == {criteria_list[k].index : k \in DOMAIN criteria_list}
    IN IF needing \subseteq given
       THEN Return([i \in needing |->
                (CHOOSE c \in Range(criteria_list) : c.index = i).identifier])
       ELSE Raise(CRITERIA_MESSAGE)

RECURSIVE summed_amounts_of(_, _, _, _)
\* 4.3: the running totals after the first n items
summed_amounts_of(item_list, index_to_criteria, params, n) ==
    IF n = 0 THEN <<>>
    ELSE LET item == item_list[n]
             identifier == IF n \in DOMAIN index_to_criteria
                           THEN index_to_criteria[n]
                           ELSE item.identifierOrCriteria
             amount == IF params.none THEN item.startAmount
                       ELSE get_present_item_amount(item.startAmount, item.endAmount, params)
         IN DictAdd(summed_amounts_of(item_list, index_to_criteria, params, n - 1),
                    item.token, identifier, amount)

get_summed_token_and_identifier_amounts(item_list, criteria_list, params) ==
    LET index_to_criteria == get_item_index_to_criteria_map(item_list, criteria_list)
    IN IF index_to_criteria.raised THEN index_to_criteria
       ELSE Return(summed_amounts_of(item_list, index_to_criteria.value, params,
                                     Len(item_list)))

----------------------------------------------------------------------------
(* validate_offer_balances_and_approvals *)

validate_offer_balances_and_approvals(offer_items, criteria_list, bas, params, throw_on_insufficient_balances, throw_on_insufficient_approvals, operator) ==
    LET summed == get_summed_token_and_identifier_amounts(
                      offer_items, criteria_list, with_is_consideration_item(params, FALSE))
        amounts == get_insufficient_balance_and_approval_amounts(bas, summed.value, operator)
    IN IF summed.raised THEN summed
       ELSE IF amounts.raised THEN amounts
       ELSE IF throw_on_insufficient_balances
               /\ amounts.value.insufficient_balances # <<>>
            THEN Raise(OFFERER_BALANCE_MESSAGE)
       ELSE IF throw_on_insufficient_approvals
               /\ amounts.value.insufficient_approvals # <<>>
            THEN Raise(OFFERER_APPROVAL_MESSAGE)
       ELSE Return(amounts.value.insufficient_approvals)

----------------------------------------------------------------------------
(* validate_basic_fulfill_balances_and_approvals *)

basic_offer_check_NoThrow(offer_items, offerer_bas, params, offerer_operator) ==
    validate_offer_balances_and_approvals(offer_items, <<>>, offerer_bas, params,
                                          TRUE, FALSE, offerer_operator)

\* lines 338-345: the offerer's check, approval deficits raising
basic_offer_check(offer_items, offerer_bas, params, offerer_operator) ==
    validate_offer_balances_and_approvals(offer_items, <<>>, offerer_bas, params,
                                          TRUE, TRUE, offerer_operator)

consideration_without_offer_item_type_AnyOffer(offer_items, consideration_items) ==
    LET Keep(x) == \A i \in DOMAIN offer_items : x.itemType # offer_items[i].itemType
    IN SelectSeq(consideration_items, Keep)

\* list(filter(lambda x: x.itemType != offer[0].itemType, consideration))
consideration_without_offer_item_type(offer_items, consideration_items) ==
    LET Keep(x) == x.itemType # offer_items[1].itemType
    IN SelectSeq(consideration_items, Keep)

fulfiller_outcome_ThrowOnApprovals(amounts) ==
    IF amounts.raised THEN amounts
    ELSE IF amounts.value.insufficient_balances # <<>>
            \/ amounts.value.insufficient_approvals # <<>>
         THEN Raise(FULFILLER_BALANCE_MESSAGE)
    ELSE Return(amounts.value.insufficient_approvals)

\* lines 367-370 and 453-456: a balance finding raises, else the approval
\* findings are returned
fulfiller_outcome(amounts) ==
    IF amounts.raised THEN amounts
    ELSE IF amounts.value.insufficient_balances # <<>>
         THEN Raise(FULFILLER_BALANCE_MESSAGE)
    ELSE Return(amounts.value.insufficient_approvals)

\* the local insufficient_balance_and_approval_amounts of a call that did not
\* get as far as the fulfiller's check
NotReached == Raise("not reached")

\* [outcome, amounts]: what the call returns or raises, and its local
\* insufficient_balance_and_approval_amounts (lines 351-365)
validate_basic_fulfill_balances_and_approvals(offer_items, consideration_items, offerer_bas, fulfiller_bas, params, offerer_operator, fulfiller_operator) ==
    LET offer_check == basic_offer_check(offer_items, offerer_bas, params, offerer_operator)
        summed == get_summed_token_and_identifier_amounts(
                      consideration_without_offer_item_type(offer_items, consideration_items),
                      <<>>, with_is_consideration_item(params, TRUE))
        amounts == get_insufficient_balance_and_approval_amounts(
                       fulfiller_bas, summed.value, fulfiller_operator)
    IN IF offer_check.raised THEN [outcome |-> offer_check, amounts |-> NotReached]
       ELSE IF summed.raised THEN [outcome |-> summed, amounts |-> NotReached]
       ELSE [outcome |-> fulfiller_outcome(amounts), amounts |-> amounts]

----------------------------------------------------------------------------
(* validate_standard_fulfill_balances_and_approvals.  The snapshots are     *)
(* lists of objects; heap maps an object's address to its fields, and a     *)
(* list is the sequence of the addresses of its elements.                   *)

\* the records a list of addresses holds
Deref(h, refs) == [i \in DOMAIN refs |-> h[refs[i]]]

\* a "copy" that shares the caller's objects
copy_balances_and_approvals_Alias(h, refs) == [heap |-> h, refs |-> refs]

\* list(map(lambda x: x.copy(), fulfiller_balances_and_approvals)): one new
\* object per element, with the element's fields
copy_balances_and_approvals(h, refs) ==
    [heap |-> h \o Deref(h, refs),
     refs |-> [i \in DOMAIN refs |-> Len(h) + i]]

\* list.index(x): the first element equal to x
index_of(list, x) == Min({i \in DOMAIN list : list[i] = x})

standard_offer_check_NoThrow(offer_items, offer_criteria, offerer_bas, params, offerer_operator) ==
    validate_offer_balances_and_approvals(offer_items, offer_criteria, offerer_bas, params,
                                          TRUE, FALSE, offerer_operator)

\* lines 397-404
standard_offer_check(offer_items, offer_criteria, offerer_bas, params, offerer_operator) ==
    validate_offer_balances_and_approvals(offer_items, offer_criteria, offerer_bas, params,
                                          TRUE, TRUE, offerer_operator)

summed_offer_amounts_AsConsideration(offer_items, offer_criteria, params) ==
    get_summed_token_and_identifier_amounts(
        offer_items, offer_criteria, with_is_consideration_item(params, TRUE))

\* lines 406-414
summed_offer_amounts(offer_items, offer_criteria, params) ==
    get_summed_token_and_identifier_amounts(
        offer_items, offer_criteria, with_is_consideration_item(params, FALSE))

RECURSIVE receive_offered_items_SkipMissing(_, _, _, _)
\* an offered pair with no entry in the working list is passed over
receive_offered_items_SkipMissing(h, working, offered, n) ==
    IF n = 0 THEN [raised |-> FALSE, heap |-> h]
    ELSE LET before == receive_offered_items_SkipMissing(h, working, offered, n - 1)
             list == Deref(before.heap, working)
             balance_and_approval ==
                 find_balance_and_approval(list, offered[n][1], offered[n][2])
             balance_and_approval_index == index_of(list, balance_and_approval.value)
         IN IF balance_and_approval.raised THEN before
            ELSE [raised |-> FALSE,
                  heap |-> [before.heap EXCEPT
                               ![working[balance_and_approval_index]].balance =
                                   @ + offered[n][3]]]

RECURSIVE receive_offered_items(_, _, _, _)
\* lines 421-437, after the first n offered (token, identifier, amount):
\* [raised, heap]; a pair with no entry in the working list raises
receive_offered_items(h, working, offered, n) ==
    IF n = 0 THEN [raised |-> FALSE, heap |-> h]
    ELSE LET before == receive_offered_items(h, working, offered, n - 1)
             list == Deref(before.heap, working)
             balance_and_approval ==
                 find_balance_and_approval(list, offered[n][1], offered[n][2])
             balance_and_approval_index == index_of(list, balance_and_approval.value)
         IN IF before.raised THEN before
            ELSE IF balance_and_approval.raised
                 THEN [raised |-> TRUE, heap |-> before.heap]
            ELSE [raised |-> FALSE,
                  heap |-> [before.heap EXCEPT
                               ![working[balance_and_approval_index]].balance =
                                   @ + offered[n][3]]]

\* [outcome, amounts, heap]: what the call returns or raises, its local
\* insufficient_balance_and_approval_amounts (lines 439-451), and the heap it
\* leaves
validate_standard_fulfill_balances_and_approvals(h, offer_items, consideration_items, offer_criteria, consideration_criteria, offerer_refs, fulfiller_refs, params, offerer_operator, fulfiller_operator) ==
    LET offer_check == standard_offer_check(offer_items, offer_criteria,
                           Deref(h, offerer_refs), params, offerer_operator)
        offered == summed_offer_amounts(offer_items, offer_criteria, params)
        copied == copy_balances_and_approvals(h, fulfiller_refs)
        after_receiving ==
            receive_offered_items(
                copied.heap, copied.refs,
                token_and_identifier_and_amount_needed_list(offered.value),
                Len(token_and_identifier_and_amount_needed_list(offered.value)))
        summed == get_summed_token_and_identifier_amounts(
                      consideration_items, consideration_criteria,
                      with_is_consideration_item(params, TRUE))
        amounts == get_insufficient_balance_and_approval_amounts(
                       Deref(after_receiving.heap, copied.refs),
                       summed.value, fulfiller_operator)
    IN IF offer_check.raised
       THEN [outcome |-> offer_check, amounts |-> NotReached, heap |-> h]
       ELSE IF offered.raised
       THEN [outcome |-> offered, amounts |-> NotReached, heap |-> h]
       ELSE IF after_receiving.raised
       THEN [outcome |-> Raise(LOOKUP_MESSAGE), amounts |-> NotReached,
             heap |-> after_receiving.heap]
       ELSE IF summed.raised
       THEN [outcome |-> summed, amounts |-> NotReached, heap |-> after_receiving.heap]
       ELSE [outcome |-> fulfiller_outcome(amounts), amounts |-> amounts,
             heap |-> after_receiving.heap]

----------------------------------------------------------------------------
(* The chain as one owner and one operator see it (web3), and the snapshot  *)
(* builder.  A contract is known by its checksummed address.                *)

Contracts == {"0xA", "0xB"}

\* Web3.toChecksumAddress on the token addresses
toChecksumAddress(token) ==
    CASE token = "0xa" -> "0xA"
      [] token = "0xb" -> "0xB"
      [] OTHER -> token

\* 4.4: native currency -> account balance; fungible -> token balance;
\* non-fungible / semi-fungible -> balance of the resolved identifier
balance_of(chain, item, identifier) ==
    IF is_native_currency_item(item.itemType) THEN chain.native
    ELSE IF is_erc20_item(item.itemType)
         THEN chain.token_balance[toChecksumAddress(item.token)]
    ELSE chain.item_balance[toChecksumAddress(item.token)][identifier]

approved_item_amount_ApprovedIsZero(chain, item) ==
    IF is_erc721_item(item.itemType) \/ is_erc1155_item(item.itemType)
    THEN [value |-> IF chain.isApprovedForAll[toChecksumAddress(item.token)]
                    THEN 0 ELSE MAX_INT,
          calls |-> <<[fn |-> "isApprovedForAll", address |-> toChecksumAddress(item.token)]>>]
    ELSE IF is_erc20_item(item.itemType)
    THEN [value |-> chain.allowance[toChecksumAddress(item.token)],
          calls |-> <<[fn |-> "allowance", address |-> toChecksumAddress(item.token)]>>]
    ELSE [value |-> MAX_INT, calls |-> <<>>]

\* [value, calls]: the amount returned and the contract calls made
approved_item_amount(chain, item) ==
    IF is_erc721_item(item.itemType) \/ is_erc1155_item(item.itemType)
    THEN [value |-> IF chain.isApprovedForAll[toChecksumAddress(item.token)]
                    THEN MAX_INT ELSE 0,
          calls |-> <<[fn |-> "isApprovedForAll", address |-> toChecksumAddress(item.token)]>>]
    ELSE IF is_erc20_item(item.itemType)
    THEN [value |-> chain.allowance[toChecksumAddress(item.token)],
          calls |-> <<[fn |-> "allowance", address |-> toChecksumAddress(item.token)]>>]
    ELSE [value |-> MAX_INT, calls |-> <<>>]

\* lines 142-153: [value, calls]
item_approved_amount(chain, item) ==
    IF is_native_currency_item(item.itemType)
    THEN [value |-> MAX_INT, calls |-> <<>>]
    ELSE approved_item_amount(chain, item)

\* lines 140-168
map_item_to_balances_and_approval(chain, index_to_criteria, index, item) ==
    LET identifier == IF index \in DOMAIN index_to_criteria
                      THEN index_to_criteria[index]
                      ELSE item.identifierOrCriteria
    IN [token |-> item.token,
        identifier_or_criteria |-> identifier,
        balance |-> balance_of(chain, item, identifier),
        approved_amount |-> item_approved_amount(chain, item).value,
        item_type |-> item.itemType]

RECURSIVE approval_calls(_, _, _)
\* the approval queries made for the first n items, each with the index of
\* its item
approval_calls(chain, item_list, n) ==
    IF n = 0 THEN <<>>
    ELSE approval_calls(chain, item_list, n - 1)
         \o [k \in DOMAIN item_approved_amount(chain, item_list[n]).calls |->
                [index |-> n,
                 fn |-> item_approved_amount(chain, item_list[n]).calls[k].fn,
                 address |-> item_approved_amount(chain, item_list[n]).calls[k].address]]

get_balances_and_approvals_Deduplicated(chain, item_list, criteria_list) ==
    LET index_to_criteria == get_item_index_to_criteria_map(item_list, criteria_list)
        all == [i \in DOMAIN item_list |->
                   map_item_to_balances_and_approval(
                       chain, index_to_criteria.value, i, item_list[i])]
        First(i) == \A j \in 1..(i - 1) :
                        \/ all[j].token # all[i].token
                        \/ all[j].identifier_or_criteria # all[i].identifier_or_criteria
        RECURSIVE Firsts(_)
        Firsts(n) == IF n = 0 THEN <<>>
                     ELSE IF First(n) THEN Append(Firsts(n - 1), all[n])
                     ELSE Firsts(n - 1)
    IN IF index_to_criteria.raised
       THEN [outcome |-> index_to_criteria, calls |-> <<>>]
       ELSE [outcome |-> Return(Firsts(Len(item_list))),
             calls |-> approval_calls(chain, item_list, Len(item_list))]

\* [outcome, calls]: one record per item, in the items' order
get_balances_and_approvals(chain, item_list, criteria_list) ==
    LET index_to_criteria == get_item_index_to_criteria_map(item_list, criteria_list)
    IN IF index_to_criteria.raised
       THEN [outcome |-> index_to_criteria, calls |-> <<>>]
       ELSE [outcome |-> Return([i \in DOMAIN item_list |->
                            map_item_to_balances_and_approval(
                                chain, index_to_criteria.value, i, item_list[i])]),
             calls |-> approval_calls(chain, item_list, Len(item_list))]

----------------------------------------------------------------------------
(* get_approval_actions *)

\* web3.eth.accounts
Accounts == <<"0xaccount0">>

\* account_address or web3.eth.accounts[0]: None and "" are falsy
from_account_of(address) ==
    IF address \in {"None", ""} THEN Accounts[1] ELSE address

RECURSIVE deduped_prefix(_, _)
\* the entries among the first n that the comprehension keeps: the last
\* entry, and every entry whose successor has another token
deduped_prefix(approvals, n) ==
    IF n = 0 THEN <<>>
    ELSE IF n = Len(approvals) \/ approvals[n + 1].token # approvals[n].token
         THEN Append(deduped_prefix(approvals, n - 1), approvals[n])
    ELSE deduped_prefix(approvals, n - 1)

deduped_approvals(approvals) == deduped_prefix(approvals, Len(approvals))

\* the ApprovalAction; transaction_methods is the contract function bound to
\* its contract and to the sending account
map_insufficient_approval_to_action(insufficient_approval, from_account) ==
    LET contract_fn ==
            IF is_erc721_item(insufficient_approval.item_type)
               \/ is_erc1155_item(insufficient_approval.item_type)
            THEN [address |-> toChecksumAddress(insufficient_approval.token),
                  abi |-> "ERC721", fn |-> "setApprovalForAll",
                  operator |-> insufficient_approval.operator, approved |-> TRUE]
            ELSE [address |-> toChecksumAddress(insufficient_approval.token),
                  abi |-> "ERC20", fn |-> "approve",
                  operator |-> insufficient_approval.operator, amount |-> MAX_INT]
    IN [token |-> insufficient_approval.token,
        identifier_or_criteria |-> insufficient_approval.identifier_or_criteria,
        item_type |-> insufficient_approval.item_type,
        operator |-> insufficient_approval.operator,
        transaction_methods |-> [contract_fn |-> contract_fn, from |-> from_account]]

get_approval_actions(approvals, address) ==
    LET deduped == deduped_approvals(approvals)
    IN [i \in DOMAIN deduped |->
           map_insufficient_approval_to_action(deduped[i], from_account_of(address))]

----------------------------------------------------------------------------
(* Idle values of the variables a specification does not use *)

\* result: the call made (op), the flags it was given, what it returned or
\* raised (outcome), and its local insufficient_balance_and_approval_amounts
NoResult ==
    [op |-> "none", throw_on_insufficient_balances |-> TRUE,
     throw_on_insufficient_approvals |-> FALSE, outcome |-> Return(<<>>),
     amounts |-> NotReached]

DetectIdle ==
    /\ balances_and_approvals = <<>>
    /\ token_and_identifier_amounts = <<>>
    /\ insufficient_amounts = [called |-> FALSE, outcome |-> Raise("")]

FlowIdle ==
    /\ offer = <<>>
    /\ consideration = <<>>
    /\ time_based_item_params = NoParams
    /\ heap = <<>>
    /\ offerer_balances_and_approvals = <<>>
    /\ fulfiller_balances_and_approvals = <<>>
    /\ result = NoResult

ApprovalIdle ==
    /\ insufficient_approvals = <<>>
    /\ account_address = "None"
    /\ approval_actions = [called |-> FALSE, value |-> <<>>]

SnapshotIdle ==
    /\ items = <<>>
    /\ criterias = <<>>
    /\ web3 = <<>>
    /\ snapshot = [called |-> FALSE, outcome |-> Raise("")]
    /\ calls = <<>>

----------------------------------------------------------------------------
(* SpecDetect: the deficit detector applied to a snapshot and a mapping *)

DETECT_OPERATOR == "0xoperator"

\* snapshot entries: the token "0xA" at either identifier, any balance and
\* nothing or MaxAmount approved
DetectEntries ==
    {[token |-> "0xA", identifier_or_criteria |-> i, balance |-> b,
      approved_amount |-> a, item_type |-> TokenItemType("0xA")] :
        i \in Ids, b \in 0..MaxAmount, a \in {0, MaxAmount}}

\* the pairs a requirement mapping may hold, in the order they are inserted:
\* the snapshot's token in both spellings, and a token it does not hold
RequiredPairs == << <<"0xa", 1>>, <<"0xa", 2>>, <<"0xA", 1>>, <<"0xb", 1>> >>

RECURSIVE DictOf(_, _)
\* the mapping that inserting the first n pairs that have an amount builds
DictOf(amount_of, n) ==
    IF n = 0 THEN <<>>
    ELSE IF n \in DOMAIN amount_of
         THEN DictAdd(DictOf(amount_of, n - 1),
                      RequiredPairs[n][1], RequiredPairs[n][2], amount_of[n])
    ELSE DictOf(amount_of, n - 1)

RequirementMappings ==
    {DictOf(amount_of, Len(RequiredPairs)) :
        amount_of \in UNION {[chosen -> 1..MaxAmount] :
                        chosen \in {c \in SUBSET DOMAIN RequiredPairs :
                                         Cardinality(c) <= MaxRequired}}}

InitDetect ==
    /\ balances_and_approvals \in SeqsUpTo(DetectEntries, MaxSnapshot)
    /\ token_and_identifier_amounts \in RequirementMappings
    /\ insufficient_amounts = [called |-> FALSE, outcome |-> Raise("")]
    /\ FlowIdle /\ ApprovalIdle /\ SnapshotIdle

GetInsufficientBalanceAndApprovalAmounts ==
    /\ ~insufficient_amounts.called
    /\ insufficient_amounts' =
          [called |-> TRUE,
           outcome |-> get_insufficient_balance_and_approval_amounts(
                          balances_and_approvals, token_and_identifier_amounts,
                          DETECT_OPERATOR)]
    /\ UNCHANGED <<balances_and_approvals, token_and_identifier_amounts,
                   flowVars, approvalVars, snapshotVars>>

NextDetect == GetInsufficientBalanceAndApprovalAmounts

SpecDetect == InitDetect /\ [][NextDetect]_vars

----------------------------------------------------------------------------
(* Spec: the three validations applied to an order and to the snapshots the *)
(* builder takes of the offerer's and the fulfiller's holdings              *)

OFFERER_OPERATOR == "0xofferer_operator"
FULFILLER_OPERATOR == "0xfulfiller_operator"

\* an order's items: a fungible token and a semi-fungible one; the amount
\* goes from 1 to 2 over the order's time
OrderItem(t) ==
    [itemType |-> TokenItemType(t), token |-> t, identifierOrCriteria |-> 1,
     startAmount |-> 1, endAmount |-> 2]

OfferItems == {OrderItem(t) : t \in {"0xa", "0xb"}}
\* the consideration spells the fungible token's address the other way
ConsiderationItems == {OrderItem(t) : t \in {"0xA", "0xb"}}

\* no clock (order creation), or half way through the order's time
Clocks ==
    {NoParams,
     [none |-> FALSE, startTime |-> 0, endTime |-> 2, currentBlockTimestamp |-> 1,
      is_consideration_item |-> FALSE]}

\* what an owner holds of the fungible token "0xA" and of the semi-fungible
\* "0xB", and what the operator may spend
Holding(balance20, allowance20, balance1155, approved_for_all) ==
    [native |-> 0,
     token_balance |-> [c \in Contracts |-> IF c = "0xA" THEN balance20 ELSE 0],
     allowance |-> [c \in Contracts |-> IF c = "0xA" THEN allowance20 ELSE 0],
     item_balance |-> [c \in Contracts |->
                          [i \in Ids |-> IF c = "0xB" THEN balance1155 ELSE 0]],
     isApprovedForAll |-> [c \in Contracts |-> c = "0xB" /\ approved_for_all]]

\* the offerer holds one of each token for every item it may offer, or
\* nothing, and has approved the operator for both tokens or for neither
OffererHoldings ==
    {Holding(IF funded THEN MaxItems ELSE 0, IF approved THEN MAX_INT ELSE 0,
             IF funded THEN MaxItems ELSE 0, approved) :
        funded \in BOOLEAN, approved \in BOOLEAN}

\* the fulfiller holds nothing or MaxBalance of each token, and has approved
\* the operator or not, token by token
FulfillerHoldings ==
    {Holding(b20, a20, b1155, all) :
        b20 \in {0, MaxBalance}, a20 \in {0, MAX_INT},
        b1155 \in {0, MaxBalance}, all \in BOOLEAN}

Init ==
    /\ offer \in SeqsUpTo(OfferItems, MaxItems) \ {<<>>}
    /\ consideration \in SeqsUpTo(ConsiderationItems, MaxItems) \ {<<>>}
    /\ time_based_item_params \in Clocks
    /\ \E offerer \in OffererHoldings, fulfiller \in FulfillerHoldings,
          \* the fulfiller's snapshot covers the consideration, or the offer
          \* and the consideration
          covered \in {consideration, offer \o consideration} :
          LET offerer_snapshot ==
                  get_balances_and_approvals(offerer, offer, <<>>).outcome.value
              fulfiller_snapshot ==
                  get_balances_and_approvals(fulfiller, covered, <<>>).outcome.value
          IN /\ heap = offerer_snapshot \o fulfiller_snapshot
             /\ offerer_balances_and_approvals =
                   [i \in DOMAIN offerer_snapshot |-> i]
             /\ fulfiller_balances_and_approvals =
                   [i \in DOMAIN fulfiller_snapshot |-> Len(offerer_snapshot) + i]
    /\ result = NoResult
    /\ DetectIdle /\ ApprovalIdle /\ SnapshotIdle

ValidateOffer ==
    /\ result.op = "none"
    /\ \E throw_on_insufficient_balances \in BOOLEAN,
          throw_on_insufficient_approvals \in BOOLEAN :
          result' = [op |-> "offer",
                     throw_on_insufficient_balances |-> throw_on_insufficient_balances,
                     throw_on_insufficient_approvals |-> throw_on_insufficient_approvals,
                     outcome |-> validate_offer_balances_and_approvals(
                                    offer, <<>>,
                                    Deref(heap, offerer_balances_and_approvals),
                                    time_based_item_params,
                                    throw_on_insufficient_balances,
                                    throw_on_insufficient_approvals,
                                    OFFERER_OPERATOR),
                     amounts |-> NotReached]
    /\ UNCHANGED <<offer, consideration, time_based_item_params, heap,
                   offerer_balances_and_approvals, fulfiller_balances_and_approvals,
                   detectVars, approvalVars, snapshotVars>>

ValidateBasicFulfill ==
    /\ result.op = "none"
    /\ LET call == validate_basic_fulfill_balances_and_approvals(
                       offer, consideration,
                       Deref(heap, offerer_balances_and_approvals),
                       Deref(heap, fulfiller_balances_and_approvals),
                       time_based_item_params, OFFERER_OPERATOR, FULFILLER_OPERATOR)
       IN result' = [NoResult EXCEPT !.op = "basic", !.outcome = call.outcome,
                                     !.amounts = call.amounts]
    /\ UNCHANGED <<offer, consideration, time_based_item_params, heap,
                   offerer_balances_and_approvals, fulfiller_balances_and_approvals,
                   detectVars, approvalVars, snapshotVars>>

\* The working copy is unreachable once the call is over: the heap that is
\* left is the caller's objects.  The call may be repeated on them.
ValidateStandardFulfill ==
    /\ result.op \in {"none", "standard"}
    /\ LET call == validate_standard_fulfill_balances_and_approvals(
                       heap, offer, consideration, <<>>, <<>>,
                       offerer_balances_and_approvals, fulfiller_balances_and_approvals,
                       time_based_item_params, OFFERER_OPERATOR, FULFILLER_OPERATOR)
       IN /\ result' = [NoResult EXCEPT !.op = "standard", !.outcome = call.outcome,
                                        !.amounts = call.amounts]
          /\ heap' = SubSeq(call.heap, 1, Len(heap))
    /\ UNCHANGED <<offer, consideration, time_based_item_params,
                   offerer_balances_and_approvals, fulfiller_balances_and_approvals,
                   detectVars, approvalVars, snapshotVars>>

Next ==
    \/ ValidateOffer
    \/ ValidateBasicFulfill
    \/ ValidateStandardFulfill

Spec == Init /\ [][Next]_vars

\* standard fulfillment alone, called on the same orders and snapshots
NextStandard == ValidateStandardFulfill

SpecStandard == Init /\ [][NextStandard]_vars

----------------------------------------------------------------------------
(* SpecApproval: get_approval_actions applied to a list of findings *)

APPROVAL_OPERATOR == "0xoperator"

\* findings for a fungible and a semi-fungible token, at either identifier
ApprovalFindings ==
    {[token |-> t, identifier_or_criteria |-> i, approved_amount |-> 0,
      required_approved_amount |-> 1, item_type |-> TokenItemType(t),
      operator |-> APPROVAL_OPERATOR] : t \in {"0xa", "0xb"}, i \in Ids}

InitApproval ==
    /\ insufficient_approvals \in SeqsUpTo(ApprovalFindings, MaxApprovals)
    /\ account_address \in {"None", "", "0xcaller"}
    /\ approval_actions = [called |-> FALSE, value |-> <<>>]
    /\ DetectIdle /\ FlowIdle /\ SnapshotIdle

GetApprovalActions ==
    /\ ~approval_actions.called
    /\ approval_actions' =
          [called |-> TRUE,
           value |-> get_approval_actions(insufficient_approvals, account_address)]
    /\ UNCHANGED <<insufficient_approvals, account_address,
                   detectVars, flowVars, snapshotVars>>

NextApproval == GetApprovalActions

SpecApproval == InitApproval /\ [][NextApproval]_vars

----------------------------------------------------------------------------
(* SpecSnapshot: get_balances_and_approvals applied to items on a chain *)

ItemTypes ==
    {NATIVE, ERC20, ERC721, ERC1155, ERC721_WITH_CRITERIA, ERC1155_WITH_CRITERIA}

\* items of every type on either token; a criteria item's identifierOrCriteria
\* is its commitment
SnapshotItems ==
    {[itemType |-> t, token |-> k, identifierOrCriteria |-> 1,
      startAmount |-> 1, endAmount |-> 1] : t \in ItemTypes, k \in {"0xa", "0xb"}}

\* no criteria, or the first item's criteria resolved to identifier 2
SnapshotCriterias == {<<>>, <<[index |-> 1, identifier |-> 2]>>}

\* the owner holds one of everything; per contract, the operator's allowance
\* is nothing or MaxAmount and it is approved for all items or not
Chains ==
    {[native |-> 1,
      token_balance |-> [c \in Contracts |-> 1],
      allowance |-> allowed,
      item_balance |-> [c \in Contracts |-> [i \in Ids |-> 1]],
      isApprovedForAll |-> approved] :
        allowed \in [Contracts -> {0, MaxAmount}],
        approved \in [Contracts -> BOOLEAN]}

InitSnapshot ==
    /\ items \in SeqsUpTo(SnapshotItems, MaxSnapshotItems)
    /\ criterias \in SnapshotCriterias
    /\ web3 \in Chains
    /\ snapshot = [called |-> FALSE, outcome |-> Raise("")]
    /\ calls = <<>>
    /\ DetectIdle /\ FlowIdle /\ ApprovalIdle

GetBalancesAndApprovals ==
    /\ ~snapshot.called
    /\ LET call == get_balances_and_approvals(web3, items, criterias)
       IN /\ snapshot' = [called |-> TRUE, outcome |-> call.outcome]
          /\ calls' = call.calls
    /\ UNCHANGED <<items, criterias, web3, detectVars, flowVars, approvalVars>>

NextSnapshot == GetBalancesAndApprovals

SpecSnapshot == InitSnapshot /\ [][NextSnapshot]_vars

----------------------------------------------------------------------------
(* Claims about the deficit detector (SpecDetect) *)

\* the snapshot entries a (token, identifier) pair matches: token compared
\* without regard to case, identifier exactly
Matching(bas, token, identifier) ==
    {i \in DOMAIN bas : /\ Lower(bas[i].token) = Lower(token)
                        /\ bas[i].identifier_or_criteria = identifier}

\* the (token, identifier) pairs a list of findings reports
Reported(findings) ==
    {<<findings[i].token, findings[i].identifier_or_criteria>> : i \in DOMAIN findings}

DetectReturned == insufficient_amounts.called /\ ~insufficient_amounts.outcome.raised

\* C1: when the detector returns, a required pair is in insufficient_balances
\* iff the balance of its snapshot entry (the first one matching it) is
\* strictly less than the amount needed, and in insufficient_approvals iff
\* that entry's approved_amount is; a value equal to the requirement is not
\* reported, and nothing outside the requirement mapping is reported.
C1_DeficitIffStrictlyLess ==
    DetectReturned =>
        LET out == insufficient_amounts.outcome.value
            required == DictPairs(token_and_identifier_amounts)
        IN /\ \A p \in required :
                LET entry == balances_and_approvals[
                                 Min(Matching(balances_and_approvals, p[1], p[2]))]
                    needed == DictGet(token_and_identifier_amounts, p[1], p[2])
                IN /\ p \in Reported(out.insufficient_balances)
                        <=> entry.balance < needed
                   /\ p \in Reported(out.insufficient_approvals)
                        <=> entry.approved_amount < needed
                   /\ entry.balance = needed
                        => p \notin Reported(out.insufficient_balances)
                   /\ entry.approved_amount = needed
                        => p \notin Reported(out.insufficient_approvals)
           /\ Reported(out.insufficient_balances) \subseteq required
           /\ Reported(out.insufficient_approvals) \subseteq required

\* the detector returned with one pair short of balance, one short of
\* approval, and one whose balance equals the requirement and is not reported
C1_Witness ==
    /\ DetectReturned
    /\ insufficient_amounts.outcome.value.insufficient_balances # <<>>
    /\ insufficient_amounts.outcome.value.insufficient_approvals # <<>>
    /\ \E p \in DictPairs(token_and_identifier_amounts) :
          /\ balances_and_approvals[Min(Matching(balances_and_approvals, p[1], p[2]))].balance
                = DictGet(token_and_identifier_amounts, p[1], p[2])
          /\ p \notin Reported(insufficient_amounts.outcome.value.insufficient_balances)

\* some required pair has no snapshot entry
SomePairMissing ==
    \E p \in DictPairs(token_and_identifier_amounts) :
        Matching(balances_and_approvals, p[1], p[2]) = {}

\* C8: the detector raises the lookup error exactly when some required pair
\* has no snapshot entry matching it (token without regard to case,
\* identifier exactly); it then returns nothing, not a partial result.
C8_MissingEntryRaises ==
    insufficient_amounts.called =>
        /\ SomePairMissing <=> insufficient_amounts.outcome.raised
        /\ SomePairMissing =>
              /\ insufficient_amounts.outcome.message = LOOKUP_MESSAGE
              /\ insufficient_amounts.outcome.value = <<>>

\* the detector raised although another required pair had an entry that was
\* short of balance, and one pair's entry differs from it only by case
C8_Witness ==
    /\ insufficient_amounts.called
    /\ insufficient_amounts.outcome.raised
    /\ \E p \in DictPairs(token_and_identifier_amounts) :
          LET m == Matching(balances_and_approvals, p[1], p[2])
          IN /\ m # {}
             /\ balances_and_approvals[Min(m)].token # p[1]
             /\ balances_and_approvals[Min(m)].balance
                   < DictGet(token_and_identifier_amounts, p[1], p[2])

\* the snapshot with entry i's field raised by d
Increased(bas, i, field, d) ==
    IF field = "balance" THEN [bas EXCEPT ![i].balance = @ + d]
    ELSE [bas EXCEPT ![i].approved_amount = @ + d]

\* the required pairs that snapshot entry i stands for
PairsOfEntry(bas, i) ==
    {p \in DictPairs(token_and_identifier_amounts) : i \in Matching(bas, p[1], p[2])}

\* C9: for the same requirement mapping, raising the balance (the
\* approved_amount) of one snapshot entry adds no pair to either list, leaves
\* the other list as it was, and removes from insufficient_balances
\* (insufficient_approvals) only pairs of that entry.
C9_Monotonic ==
    DetectReturned =>
        \A i \in DOMAIN balances_and_approvals, d \in 1..MaxAmount :
            LET before == insufficient_amounts.outcome.value
                b == get_insufficient_balance_and_approval_amounts(
                        Increased(balances_and_approvals, i, "balance", d),
                        token_and_identifier_amounts, DETECT_OPERATOR)
                a == get_insufficient_balance_and_approval_amounts(
                        Increased(balances_and_approvals, i, "approved_amount", d),
                        token_and_identifier_amounts, DETECT_OPERATOR)
            IN /\ ~b.raised /\ ~a.raised
               /\ Reported(b.value.insufficient_balances)
                     \subseteq Reported(before.insufficient_balances)
               /\ Reported(before.insufficient_balances)
                     \ Reported(b.value.insufficient_balances)
                     \subseteq PairsOfEntry(balances_and_approvals, i)
               /\ Reported(b.value.insufficient_approvals)
                     = Reported(before.insufficient_approvals)
               /\ Reported(a.value.insufficient_approvals)
                     \subseteq Reported(before.insufficient_approvals)
               /\ Reported(before.insufficient_approvals)
                     \ Reported(a.value.insufficient_approvals)
                     \subseteq PairsOfEntry(balances_and_approvals, i)
               /\ Reported(a.value.insufficient_balances)
                     = Reported(before.insufficient_balances)

\* raising one entry's balance removes a reported pair while another pair
\* stays reported
C9_Witness ==
    /\ DetectReturned
    /\ \E i \in DOMAIN balances_and_approvals, d \in 1..MaxAmount :
          LET b == get_insufficient_balance_and_approval_amounts(
                      Increased(balances_and_approvals, i, "balance", d),
                      token_and_identifier_amounts, DETECT_OPERATOR)
          IN /\ b.value.insufficient_balances # <<>>
             /\ Reported(b.value.insufficient_balances)
                   # Reported(insufficient_amounts.outcome.value.insufficient_balances)

----------------------------------------------------------------------------
(* Claims about the three validations (Spec) *)

OffererSnapshot == Deref(heap, offerer_balances_and_approvals)
FulfillerSnapshot == Deref(heap, fulfiller_balances_and_approvals)

\* the first snapshot entry matching a (token, identifier) pair
Entry(bas, p) == bas[Min(Matching(bas, p[1], p[2]))]

\* what the offer takes from the offerer, rounded as offer items are, and
\* what the consideration takes from the fulfiller, rounded as consideration
\* items are
OfferSums ==
    get_summed_token_and_identifier_amounts(
        offer, <<>>, with_is_consideration_item(time_based_item_params, FALSE)).value
ConsiderationSums ==
    get_summed_token_and_identifier_amounts(
        consideration, <<>>, with_is_consideration_item(time_based_item_params, TRUE)).value

\* basic fulfillment: the consideration items of another type than offer[0]
NotExempt(x) == x.itemType # offer[1].itemType
BasicSums ==
    get_summed_token_and_identifier_amounts(
        SelectSeq(consideration, NotExempt), <<>>,
        with_is_consideration_item(time_based_item_params, TRUE)).value

OffererApprovalDeficit ==
    \E p \in DictPairs(OfferSums) :
        /\ Matching(OffererSnapshot, p[1], p[2]) # {}
        /\ Entry(OffererSnapshot, p).approved_amount < DictGet(OfferSums, p[1], p[2])

OffererBalanceDeficit ==
    \E p \in DictPairs(OfferSums) :
        /\ Matching(OffererSnapshot, p[1], p[2]) # {}
        /\ Entry(OffererSnapshot, p).balance < DictGet(OfferSums, p[1], p[2])

OffererChecksPass ==
    \A p \in DictPairs(OfferSums) :
        /\ Matching(OffererSnapshot, p[1], p[2]) # {}
        /\ Entry(OffererSnapshot, p).balance >= DictGet(OfferSums, p[1], p[2])
        /\ Entry(OffererSnapshot, p).approved_amount >= DictGet(OfferSums, p[1], p[2])

\* C2 as the specification states it: in all three flows an approval deficit
\* of the offerer makes the call raise.
C2_AllThreeEscalate ==
    (result.op \in {"offer", "basic", "standard"} /\ OffererApprovalDeficit)
        => result.outcome.raised

\* C2, amended: basic and standard fulfillment raise an offerer's error
\* whenever the offerer's snapshot is short of approval for an offered pair,
\* whatever the fulfiller's snapshot holds; validate_offer_balances_and_approvals
\* raises then only if throw_on_insufficient_approvals is set (or a balance
\* deficit raises first), and otherwise returns the approval deficits.
C2_EscalationByFlow ==
    (result.op # "none" /\ OffererApprovalDeficit) =>
        /\ result.op \in {"basic", "standard"} =>
              /\ result.outcome.raised
              /\ result.outcome.message
                    \in {OFFERER_BALANCE_MESSAGE, OFFERER_APPROVAL_MESSAGE}
              /\ result.amounts = NotReached
        /\ (result.op = "offer" /\ result.throw_on_insufficient_approvals) =>
              result.outcome.raised
        /\ (/\ result.op = "offer"
            /\ ~result.throw_on_insufficient_approvals
            /\ ~(result.throw_on_insufficient_balances /\ OffererBalanceDeficit)) =>
              /\ ~result.outcome.raised
              /\ result.outcome.value # <<>>

\* standard fulfillment raised the offerer's approval error although the
\* fulfiller's snapshot covers every pair and is short of nothing
C2_Witness ==
    /\ result.op = "standard"
    /\ OffererApprovalDeficit
    /\ result.outcome.message = OFFERER_APPROVAL_MESSAGE
    /\ \A p \in DictPairs(OfferSums) \cup DictPairs(ConsiderationSums) :
          /\ Matching(FulfillerSnapshot, p[1], p[2]) # {}
          /\ Entry(FulfillerSnapshot, p).balance >= MaxBalance
          /\ Entry(FulfillerSnapshot, p).approved_amount = MAX_INT

RECURSIVE SumOver(_, _)
\* the offered amounts of a set of offered pairs, added up
SumOver(pairs, d) ==
    IF pairs = {} THEN 0
    ELSE LET p == CHOOSE q \in pairs : TRUE
         IN DictGet(d, p[1], p[2]) + SumOver(pairs \ {p}, d)

\* what the fulfiller receives on snapshot entry k
OfferedTo(k) ==
    SumOver({p \in DictPairs(OfferSums) :
                /\ Matching(FulfillerSnapshot, p[1], p[2]) # {}
                /\ Min(Matching(FulfillerSnapshot, p[1], p[2])) = k}, OfferSums)

\* the fulfiller's snapshot as a flow checks it: as it is (basic), or with
\* the offered amounts received (standard)
Working(op) ==
    IF op = "basic" THEN FulfillerSnapshot
    ELSE [k \in DOMAIN FulfillerSnapshot |->
             [FulfillerSnapshot[k] EXCEPT !.balance = @ + OfferedTo(k)]]

\* what a flow requires of the fulfiller
Required(op) == IF op = "basic" THEN BasicSums ELSE ConsiderationSums

\* the fulfiller's snapshot has an entry for every pair the flow looks up
Covered(op) ==
    /\ \A p \in DictPairs(Required(op)) : Matching(FulfillerSnapshot, p[1], p[2]) # {}
    /\ op = "standard" =>
          \A p \in DictPairs(OfferSums) : Matching(FulfillerSnapshot, p[1], p[2]) # {}

BalanceFindings(op) ==
    {p \in DictPairs(Required(op)) :
        Entry(Working(op), p).balance < DictGet(Required(op), p[1], p[2])}

\* the fulfiller's insufficient approvals, in the order of the requirement
\* mapping, for the fulfiller's operator
ExpectedApprovals(op) ==
    LET Short(t) == Entry(FulfillerSnapshot, t).approved_amount < t[3]
        short == SelectSeq(token_and_identifier_and_amount_needed_list(Required(op)), Short)
    IN [i \in DOMAIN short |->
           [token |-> short[i][1],
            identifier_or_criteria |-> short[i][2],
            approved_amount |-> Entry(FulfillerSnapshot, short[i]).approved_amount,
            required_approved_amount |-> short[i][3],
            item_type |-> Entry(FulfillerSnapshot, short[i]).item_type,
            operator |-> FULFILLER_OPERATOR]]

\* C3: in basic and standard fulfillment, once the offerer's checks pass,
\* the call raises the fulfiller's balance error iff the fulfiller has an
\* insufficient-balance finding (after the exemption or the adjustment);
\* approval findings never make it raise, and with no balance finding it
\* returns exactly the fulfiller's insufficient approvals, each with the
\* fulfiller's operator.  (A snapshot that lacks a pair raises the lookup
\* error instead.)
C3_FulfillerOutcome ==
    (result.op \in {"basic", "standard"} /\ OffererChecksPass) =>
        /\ (result.outcome.raised /\ result.outcome.message = FULFILLER_BALANCE_MESSAGE)
              <=> (Covered(result.op) /\ BalanceFindings(result.op) # {})
        /\ (Covered(result.op) /\ BalanceFindings(result.op) = {}) =>
              /\ ~result.outcome.raised
              /\ result.outcome.value = ExpectedApprovals(result.op)
        /\ ~Covered(result.op) =>
              /\ result.outcome.raised
              /\ result.outcome.message = LOOKUP_MESSAGE

\* a fulfillment returned two approval findings of the fulfiller
C3_Witness ==
    /\ result.op \in {"basic", "standard"}
    /\ OffererChecksPass
    /\ ~result.outcome.raised
    /\ Len(result.outcome.value) = 2
    /\ \A i \in DOMAIN result.outcome.value :
          result.outcome.value[i].operator = FULFILLER_OPERATOR

\* the pair of an item
PairOf(x) == <<x.token, x.identifierOrCriteria>>

C5_ReceiveThenPay ==
    (result.op = "standard" /\ OffererChecksPass /\ Covered("standard")) =>
        /\ ~result.amounts.raised
        /\ \A i \in DOMAIN consideration :
              LET p == PairOf(consideration[i])
                  k == Min(Matching(FulfillerSnapshot, p[1], p[2]))
                  needed == DictGet(ConsiderationSums, p[1], p[2])
              IN /\ p \in Reported(result.amounts.value.insufficient_balances)
                      <=> FulfillerSnapshot[k].balance + OfferedTo(k) < needed
                 /\ p \in Reported(result.amounts.value.insufficient_approvals)
                      <=> FulfillerSnapshot[k].approved_amount < needed
        /\ Reported(result.amounts.value.insufficient_balances)
              \cup Reported(result.amounts.value.insufficient_approvals)
              \subseteq {PairOf(consideration[i]) : i \in DOMAIN consideration}

\* half way through the order's time the fulfiller, holding nothing of a
\* pair, receives 1 of it (1.5 rounded down) and owes 2 (1.5 rounded up):
\* the pair is a balance finding; another pair is covered only by what is
\* received
C5_Witness ==
    /\ result.op = "standard"
    /\ OffererChecksPass /\ Covered("standard")
    /\ ~time_based_item_params.none
    /\ \E p \in DictPairs(ConsiderationSums) :
          LET k == Min(Matching(FulfillerSnapshot, p[1], p[2]))
          IN /\ FulfillerSnapshot[k].balance = 0
             /\ OfferedTo(k) = 1
             /\ DictGet(ConsiderationSums, p[1], p[2]) = 2
             /\ p \in Reported(result.amounts.value.insufficient_balances)

\* C6: a call of validate_standard_fulfill_balances_and_approvals leaves
\* every object of the caller's two snapshots, and the two lists, as they
\* were, and a repeated call on them has the same outcome.
C6_CallerSnapshotUnchanged ==
    [][result'.op = "standard" =>
          /\ heap' = heap
          /\ fulfiller_balances_and_approvals' = fulfiller_balances_and_approvals
          /\ offerer_balances_and_approvals' = offerer_balances_and_approvals
          /\ result.op = "standard" => result'.outcome = result.outcome]_vars

\* a standard fulfillment went through the pre-adjustment: the offered
\* amount of some pair was added to the working copy of a fulfiller's entry
C6_Witness ==
    /\ result.op = "standard"
    /\ OffererChecksPass /\ Covered("standard")
    /\ \E k \in DOMAIN FulfillerSnapshot : OfferedTo(k) > 0
    /\ ~result.outcome.raised

----------------------------------------------------------------------------
(* Claims about get_approval_actions *)

FindingTokens == {insufficient_approvals[i].token : i \in DOMAIN insufficient_approvals}

\* the position of the last finding for token t
LastFinding(t) ==
    CHOOSE i \in DOMAIN insufficient_approvals :
        /\ insufficient_approvals[i].token = t
        /\ \A j \in DOMAIN insufficient_approvals :
               insufficient_approvals[j].token = t => j <= i

ActionsFor(t) ==
    {k \in DOMAIN approval_actions.value : approval_actions.value[k].token = t}

\* C7: get_approval_actions produces exactly one action per distinct token of
\* the input, whatever the input's order, and the action of a token is built
\* from the last finding for that token.
C7_OnePerDistinctToken ==
    approval_actions.called =>
        /\ Len(approval_actions.value) = Cardinality(FindingTokens)
        /\ \A t \in FindingTokens :
              /\ Cardinality(ActionsFor(t)) = 1
              /\ \A k \in ActionsFor(t) :
                    LET action == approval_actions.value[k]
                        finding == insufficient_approvals[LastFinding(t)]
                    IN /\ action.identifier_or_criteria = finding.identifier_or_criteria
                       /\ action.item_type = finding.item_type
                       /\ action.operator = finding.operator

----------------------------------------------------------------------------
(* Claims about get_balances_and_approvals *)

CallsFor(i) == SelectSeq(calls, LAMBDA c : c.index = i)

\* C10: get_balances_and_approvals returns one record per item, at the item's
\* index and without deduplication; a native item's approved_amount is MAX_INT
\* and no approval query is made for it; a non-fungible or semi-fungible
\* item's (criteria variants included) is MAX_INT if the operator is approved
\* for all and 0 otherwise; a fungible item's is the token's allowance.
C10_ApprovalDispatch ==
    (snapshot.called /\ ~snapshot.outcome.raised) =>
        /\ Len(snapshot.outcome.value) = Len(items)
        /\ \A i \in DOMAIN items :
              LET item == items[i]
                  record == snapshot.outcome.value[i]
                  address == toChecksumAddress(item.token)
              IN /\ record.token = item.token
                 /\ record.item_type = item.itemType
                 /\ item.itemType = NATIVE =>
                        /\ record.approved_amount = MAX_INT
                        /\ CallsFor(i) = <<>>
                 /\ item.itemType \in {ERC721, ERC1155, ERC721_WITH_CRITERIA,
                                        ERC1155_WITH_CRITERIA} =>
                        /\ record.approved_amount =
                              IF web3.isApprovedForAll[address] THEN MAX_INT ELSE 0
                        /\ CallsFor(i) = <<[index |-> i, fn |-> "isApprovedForAll",
                                            address |-> address]>>
                 /\ item.itemType = ERC20 =>
                        /\ record.approved_amount = web3.allowance[address]
                        /\ CallsFor(i) = <<[index |-> i, fn |-> "allowance",
                                            address |-> address]>>

\* a criteria item and a fungible item have been recorded, on a chain whose
\* contracts answer differently
C10_Witness ==
    /\ snapshot.called /\ ~snapshot.outcome.raised
    /\ Len(items) = 2
    /\ \E i \in DOMAIN items : items[i].itemType = ERC721_WITH_CRITERIA
    /\ \E i \in DOMAIN items : items[i].itemType = ERC20
    /\ web3.allowance["0xA"] # web3.allowance["0xB"]
    /\ web3.isApprovedForAll["0xA"] # web3.isApprovedForAll["0xB"]

----------------------------------------------------------------------------
(* Claims about the pairs standard fulfillment looks up *)

\* the offered pairs the fulfiller's snapshot has no entry for
UncoveredOfferedPairs ==
    {p \in DictPairs(OfferSums) : Matching(FulfillerSnapshot, p[1], p[2]) = {}}

\* the fulfiller's snapshot has an entry for every consideration pair, with
\* the balance the consideration takes
ConsiderationFunded ==
    \A p \in DictPairs(ConsiderationSums) :
        /\ Matching(FulfillerSnapshot, p[1], p[2]) # {}
        /\ Entry(FulfillerSnapshot, p).balance >= DictGet(ConsiderationSums, p[1], p[2])

LookupRaised == result.outcome.raised /\ result.outcome.message = LOOKUP_MESSAGE

\* C11: in standard fulfillment, once the offerer's checks pass, the call
\* raises the snapshot-lookup error whenever the fulfiller's snapshot has no
\* entry for an offered pair, before the consideration is looked at and so
\* even if the fulfiller can pay all of it; the lookup error is raised
\* exactly when the snapshot lacks an offered pair or a consideration pair.
C11_OfferedPairsLookedUp ==
    (result.op = "standard" /\ OffererChecksPass) =>
        /\ UncoveredOfferedPairs # {} =>
              /\ LookupRaised
              /\ result.amounts = NotReached
        /\ LookupRaised <=> ~Covered("standard")

\* standard fulfillment raised the lookup error for an offered pair although
\* the fulfiller's snapshot holds all that the consideration takes
C11_Witness ==
    /\ result.op = "standard"
    /\ OffererChecksPass
    /\ UncoveredOfferedPairs # {}
    /\ ConsiderationFunded
    /\ LookupRaised

====
